---- MODULE Spec2Model ----
(***************************************************************************)
(* TorchLogger of datafed_torchflow/pytorch.py: the metadata assembler     *)
(* (getMetadata) and the checkpoint orchestrator (__init__, save_notebook, *)
(* save, reset) against a remote data service.                            *)
(***************************************************************************)
EXTENDS Integers, Sequences, FiniteSets, TLC

VARIABLES
    state,                  \* "Uninitialized" before __init__ has returned, then "Ready"
    records,                \* the data service: records created so far, id = index
    current_checkpoint_id,  \* self.current_checkpoint_id
    notebook_record_id,     \* self.notebook_record_id
    file,                   \* self.__file__ (script_path)
    nbChecksum,             \* checksum of the notebook file's present content
    logging,                \* self.logging
    input_data_shape,       \* self.input_data_shape
    log,                    \* the file at self.log_file_path, one element per entry
    local_vars,             \* the variable snapshot the caller holds
    last                    \* what the last call was given, did and returned

vars == <<state, records, current_checkpoint_id, notebook_record_id, file,
          nbChecksum, logging, input_data_shape, log, local_vars, last>>

-----------------------------------------------------------------------------
(* Bounds *)

\* records the data service holds at most
MaxRecords == 2
\* variables of a snapshot at most
MaxVars == 2
\* entries of the log file at most
MaxLog == 2

\* Python's None for identifiers; record identifiers are 1, 2, ...
None == 0

-----------------------------------------------------------------------------
(* Values of the snapshot, described by what the code asks of them *)

\* one element of a list value: len(str(s)) and whether json can encode it
Elem(n, j) == [strlen |-> n, json |-> j]

\* typ: type(value); callable: callable(value); json: what json.dumps(value)
\* does; str: what str(value) does; fmt: what f"{value}" does; shape:
\* value.shape; tolist_json: json can encode value.tolist(); elems: the
\* elements of a list; nattrs: len(extract_instance_attributes(value));
\* first_private: "_" in str(type(first value of the dict)); size: len(value)
Val(typ) ==
    [typ |-> typ, callable |-> FALSE, json |-> "TypeError", str |-> "ok",
     fmt |-> "ok", shape |-> <<>>, tolist_json |-> TRUE, elems |-> <<>>,
     nattrs |-> 0, first_private |-> FALSE, size |-> 0]

Float == [Val("float") EXCEPT !.json = "ok"]
Str == [Val("str") EXCEPT !.json = "ok"]
SetVal == Val("set")
\* a tuple nested too deep for json and for str
DeepTuple ==
    [Val("tuple") EXCEPT !.json = "RecursionError", !.str = "RecursionError",
                         !.fmt = "RecursionError"]
\* an instance of a class with __slots__ whose __str__ returns a non-string
BadStr == [Val("Slotted") EXCEPT !.str = "TypeError", !.fmt = "TypeError"]
\* the same, with a __format__ of its own that works
BadStrFmt == [Val("SlottedFmt") EXCEPT !.str = "TypeError"]
\* an instance of a class with __slots__ whose __str__ raises RuntimeError
BrokenStr == [Val("SlottedBroken") EXCEPT !.str = "RuntimeError", !.fmt = "RuntimeError"]
Path == Val("PosixPath")
SmallArray == [Val("ndarray") EXCEPT !.shape = <<2, 2>>]
WideArray == [Val("ndarray") EXCEPT !.shape = <<2, 9>>]
BigArray == [Val("ndarray") EXCEPT !.shape = <<4, 1>>]
Obj == [Val("Config") EXCEPT !.nattrs = 2]
EmptyObj == Val("Config")
Dict == [Val("dict") EXCEPT !.json = "ok", !.size = 1]
PrivateDict == [Val("dict") EXCEPT !.size = 1, !.first_private = TRUE]
EmptyDict == [Val("dict") EXCEPT !.json = "ok"]
Module == [Val("Encoder") EXCEPT !.callable = TRUE, !.nattrs = 1]
Optimizer == [Val("Adam") EXCEPT !.nattrs = 1]
Loader == Val("DataLoader")
Dataset == Val("TensorDataset")
Function == [Val("function") EXCEPT !.callable = TRUE]
NoneVal == [Val("NoneType") EXCEPT !.json = "ok"]
List1 == [Val("list") EXCEPT !.elems = <<Elem(5, TRUE)>>]
List2 == [Val("list") EXCEPT !.elems = <<Elem(5, TRUE), Elem(994, TRUE)>>]
LongList == [Val("list") EXCEPT !.elems = <<Elem(5, TRUE), Elem(995, TRUE)>>]
SetList == [Val("list") EXCEPT !.elems = <<Elem(5, FALSE)>>]
EmptyList == [Val("list") EXCEPT !.json = "ok"]

Values ==
    {Float, Str, SetVal, DeepTuple, BadStr, BadStrFmt, BrokenStr, Path,
     SmallArray, WideArray, BigArray, Obj, EmptyObj, Dict, PrivateDict,
     EmptyDict, Module, Optimizer, Loader, Function, NoneVal, List1, List2,
     LongList, SetList, EmptyList, Dataset}

\* the names a snapshot variable may carry
Keys == {"lr", "encoder", "optimizer", "Optim", "x", "_x", "Self", "datafed_api", "globus_ep"}

\* key.casefold()
casefold(key) ==
    CASE key = "Optim" -> "optim"
      [] key = "Self" -> "self"
      [] OTHER -> key

\* key.startswith("_")
startswith_underscore(key) == key \in {"_x"}

\* sub in key.casefold(), for the two substrings the code looks for
key_contains(key, sub) ==
    \/ sub = "datafed" /\ key \in {"datafed_api"}
    \/ sub = "globus" /\ key \in {"globus_ep"}

\* the names the exclusion test lists
Stopwords ==
    {"checkpoint", "self", "local_vars", "model_dict", "model_hyperparameters",
     "i", "image", "key", "value"}

OptimizerAliases == {"optimizer", "optim", "optim_", "optimizer_"}

\* the types the exclusion test lists, among the types of Values
ExcludedTypes == {"type", "module", "function", "API", "DataLoader", "NoneType", "method"}

\* "data" in str(type(value)).casefold(); "dataloader" in it
type_contains(typ, sub) ==
    \/ sub = "data" /\ typ \in {"DataLoader", "TensorDataset"}
    \/ sub = "dataloader" /\ typ \in {"DataLoader"}

isinstance_str(value) == value.typ = "str"
isinstance_list(value) == value.typ = "list"
isinstance_dict(value) == value.typ = "dict"
isinstance_array(value) == value.typ \in {"ndarray", "Tensor"}
is_path_or_device(value) == value.typ \in {"PosixPath", "device"}
has_dict(value) ==
    value.typ \in {"Config", "Encoder", "Adam", "DataLoader", "TensorDataset", "function"}

\* self.model_dict.keys() of the logger under study
model_dict == {"encoder", "optimizer"}

\* the hyperparameter names a caller passes
HyperNames == {"lr", "encoder"}

NoShape == [given |-> FALSE, shape |-> <<>>]
Shape(s) == [given |-> TRUE, shape |-> s]
InputShape == Shape(<<3, 3>>)

-----------------------------------------------------------------------------
(* getMetadata *)

\* a < b on Python tuples: the first differing position decides, a proper
\* prefix is smaller
RECURSIVE tuple_less(_, _)
tuple_less(a, b) ==
    IF b = <<>> THEN FALSE
    ELSE IF a = <<>> THEN TRUE
    ELSE IF Head(a) # Head(b) THEN Head(a) < Head(b)
    ELSE tuple_less(Tail(a), Tail(b))

RECURSIVE sum_strlen(_)
sum_strlen(elems) ==
    IF elems = <<>> THEN 0 ELSE Head(elems).strlen + sum_strlen(Tail(elems))

\* an exclusion test that lets the model blocks through unexamined
Excluded_after_blocks(key, value) ==
    /\ key \notin model_dict
    /\ ~ ( /\ ~startswith_underscore(key)
           /\ casefold(key) \notin Stopwords
           /\ ~key_contains(key, "datafed")
           /\ ~key_contains(key, "globus")
           /\ ~type_contains(value.typ, "data")
           /\ ~type_contains(value.typ, "dataloader")
           /\ \/ ~(value.callable /\ key \notin model_dict)
              \/ ~(value.callable /\ key \notin OptimizerAliases)
           /\ value.typ \notin ExcludedTypes )

\* the exclusion test of the loop body, negated: TRUE when the pair is skipped
Excluded(key, value) ==
    ~ ( /\ ~startswith_underscore(key)
        /\ casefold(key) \notin Stopwords
        /\ ~key_contains(key, "datafed")
        /\ ~key_contains(key, "globus")
        /\ ~type_contains(value.typ, "data")
        /\ ~type_contains(value.typ, "dataloader")
        /\ \/ ~(value.callable /\ key \notin model_dict)
           \/ ~(value.callable /\ key \notin OptimizerAliases)
        /\ value.typ \notin ExcludedTypes )

\* what a key of the record holds: the value itself ("raw"), str(value),
\* value.tolist(), str(value.tolist()), value[0], the attribute mapping, or a
\* serialized model block or optimizer
Stored(form, value) == [form |-> form, val |-> value]

EmptyRecord == [MP |-> <<>>, MH |-> <<>>, MA |-> <<>>]

\* d[key] = stored, on a mapping kept as a function
Put(d, key, stored) == (key :> stored) @@ d

\* one entry of the log file; complete is FALSE when the writes stopped early
LogEntry(key, complete) == [key |-> key, complete |-> complete]

\* the state of one getMetadata call: the record so far, the entries it
\* appended to the log file, the exception that ended it ("none" if none),
\* the branch each variable it reached took, and the names it emitted a
\* warning for
Acc(md, appended, exc) ==
    [md |-> md, appended |-> appended, exc |-> exc, tags |-> <<>>, warnings |-> <<>>]

PutMP(acc, key, stored) == [acc EXCEPT !.md.MP = Put(@, key, stored)]
PutMH(acc, key, stored) == [acc EXCEPT !.md.MH = Put(@, key, stored)]
PutMA(acc, key, stored) == [acc EXCEPT !.md.MA = Put(@, key, stored)]
Raise(acc, exc) == [acc EXCEPT !.exc = exc]

Caught == {"TypeError", "ValueError", "JSONDecodeError"}

\* json.dumps(value): a list is encoded element by element
json_dumps(value) ==
    IF isinstance_list(value)
    THEN IF \A i \in 1..Len(value.elems) : value.elems[i].json THEN "ok" ELSE "TypeError"
    ELSE value.json

\* the last branch's diagnostic: open the log file for append and write the
\* entry; the second write formats the value itself
write_diagnostic(key, value, acc, openOK) ==
    IF ~openOK THEN Raise(acc, "OSError")
    ELSE IF value.fmt # "ok"
         THEN Raise([acc EXCEPT !.appended = Append(@, LogEntry(key, FALSE))], value.fmt)
         ELSE [acc EXCEPT !.appended = Append(@, LogEntry(key, TRUE))]

\* the else branch: "all other cases"
store_default(slf, key, value, acc, openOK) ==
    IF json_dumps(value) = "ok" THEN PutMP(acc, key, Stored("raw", value))
    ELSE IF json_dumps(value) \notin Caught THEN Raise(acc, json_dumps(value))
    ELSE IF value.str = "ok" THEN PutMP(acc, key, Stored("str", value))
    ELSE IF value.str \notin Caught THEN Raise(acc, value.str)
    ELSE IF ~slf.logging THEN acc
    ELSE write_diagnostic(key, value, acc, openOK)

\* the branch of a non-empty dict
store_dict(key, value, acc) ==
    IF value.first_private THEN acc
    ELSE IF json_dumps(value) = "ok" THEN PutMP(acc, key, Stored("raw", value))
    ELSE IF json_dumps(value) \notin Caught THEN Raise(acc, json_dumps(value))
    ELSE IF value.str = "ok" THEN PutMP(acc, key, Stored("str", value))
    ELSE Raise(acc, value.str)

\* the branch of a value with a __dict__
store_object(key, value, acc) ==
    IF value.nattrs > 0 THEN PutMP(acc, key, Stored("attrs", value)) ELSE acc

\* the branch of an array or tensor that is no hyperparameter
store_array(slf, key, value, acc) ==
    IF slf.input_data_shape.given /\ tuple_less(value.shape, slf.input_data_shape.shape)
    THEN IF value.tolist_json
         THEN PutMP(acc, key, Stored("tolist", value))
         ELSE PutMP(acc, key, Stored("str_tolist", value))
    ELSE acc

\* the branch of a hyperparameter name
store_hyperparameter(slf, key, value, acc) ==
    IF isinstance_array(value) /\ slf.input_data_shape.given
    THEN IF tuple_less(value.shape, slf.input_data_shape.shape)
         THEN PutMH(acc, key, Stored("tolist", value))
         ELSE acc
    ELSE PutMH(acc, key, Stored("raw", value))

\* the length that decides whether a list is kept
LongListLimit == 1000

\* a list rule that unwraps every short list
store_list_unwrapping(key, value, acc) ==
    IF sum_strlen(value.elems) < LongListLimit
    THEN PutMP(acc, key, Stored("elem0", value))
    ELSE acc

\* the branch of a list: a long list is left out, the Warning object is
\* built and discarded
store_list(key, value, acc) ==
    IF sum_strlen(value.elems) < LongListLimit
    THEN IF Len(value.elems) = 1
         THEN PutMP(acc, key, Stored("elem0", value))
         ELSE PutMP(acc, key, Stored("raw", value))
    ELSE acc

\* the branch of a model block name
store_architecture(key, value, acc) ==
    IF ~isinstance_str(value) /\ casefold(key) \in OptimizerAliases
    THEN PutMA(acc, key, Stored("optimizer", value))
    ELSE PutMA(acc, key, Stored("model", value))

\* the if/elif chain of the loop body: the branch a pair that is not
\* excluded takes
branch(key, value, hp) ==
    IF key \in model_dict THEN "architecture"
    ELSE IF ~isinstance_str(value) /\ casefold(key) \in OptimizerAliases THEN "optimizer"
    ELSE IF isinstance_list(value) THEN "list"
    ELSE IF key \in hp THEN "hyperparameter"
    ELSE IF isinstance_array(value) THEN "array"
    ELSE IF is_path_or_device(value) THEN "path"
    ELSE IF has_dict(value) THEN "object"
    ELSE IF isinstance_dict(value) /\ value.size > 0 THEN "dict"
    ELSE "default"

\* the body of the branch taken
classify(slf, key, value, hp, acc, openOK) ==
    LET b == branch(key, value, hp)
    IN CASE b = "architecture" -> store_architecture(key, value, acc)
         [] b = "optimizer" -> PutMA(acc, key, Stored("optimizer", value))
         [] b = "list" -> store_list(key, value, acc)
         [] b = "hyperparameter" -> store_hyperparameter(slf, key, value, acc)
         [] b = "array" -> store_array(slf, key, value, acc)
         [] b = "path" -> PutMP(acc, key, Stored("str", value))
         [] b = "object" -> store_object(key, value, acc)
         [] b = "dict" -> store_dict(key, value, acc)
         [] OTHER -> store_default(slf, key, value, acc, openOK)

\* one pass of the for loop; tags notes the branch each variable took
loop_body(slf, key, value, hp, acc, openOK) ==
    IF Excluded(key, value) THEN [acc EXCEPT !.tags = Append(@, "ignored")]
    ELSE classify(slf, key, value, hp,
                  [acc EXCEPT !.tags = Append(@, branch(key, value, hp))], openOK)

\* the for loop over local_vars, from position i on; an exception ends it
RECURSIVE loop(_, _, _, _, _, _)
loop(slf, lv, hp, acc, openOK, i) ==
    IF i > Len(lv) \/ acc.exc # "none" THEN acc
    ELSE loop(slf, lv, hp, loop_body(slf, lv[i][1], lv[i][2], hp, acc, openOK),
              openOK, i + 1)

\* the notebook provenance, user and timestamp merged in after the loop
Provenance(md) ==
    [md EXCEPT !.MP = Put(Put(Put(@, "script", Stored("raw", Str)),
                              "user", Stored("raw", Str)),
                          "timestamp", Stored("raw", Str))]

\* an optional argument: given is FALSE when the caller passed None
Missing == [given |-> FALSE, v |-> <<>>]
Given(v) == [given |-> TRUE, v |-> v]

\* what getNotebookMetadata(self.__file__) does: returns the mapping, returns
\* None, or raises
NotebookMetadataOutcomes == {"ok", "None", "raise"}

\* a getMetadata that takes a missing argument for an empty one
getMetadata_defaulting(slf, lv, hp, openOK, nbmeta) ==
    LET acc == loop(slf, IF lv.given THEN lv.v ELSE <<>>, IF hp.given THEN hp.v ELSE {},
                    Acc(EmptyRecord, <<>>, "none"), openOK, 1)
    IN IF acc.exc # "none" THEN acc
       ELSE IF nbmeta = "raise" THEN Raise(acc, "FileNotFoundError")
       ELSE IF nbmeta = "None" THEN Raise(acc, "TypeError (update)")
       ELSE [acc EXCEPT !.md = Provenance(@)]

\* getMetadata(local_vars, model_hyperparameters) on the logger slf; openOK
\* tells whether the log file can be opened for append during this call,
\* nbmeta what getNotebookMetadata does
getMetadata(slf, lv, hp, openOK, nbmeta) ==
    IF ~lv.given \/ ~hp.given THEN Acc(EmptyRecord, <<>>, "ValueError")
    ELSE LET acc == loop(slf, lv.v, hp.v, Acc(EmptyRecord, <<>>, "none"), openOK, 1)
         IN IF acc.exc # "none" THEN acc
            ELSE IF nbmeta = "raise" THEN Raise(acc, "FileNotFoundError")
            ELSE IF nbmeta = "None" THEN Raise(acc, "TypeError (update)")
            ELSE [acc EXCEPT !.md = Provenance(@)]

-----------------------------------------------------------------------------
(* The data service and the calls the logger makes on it *)

\* the checksums the notebook file's content may have
Checksums == {"c1", "c2"}

\* a record of the data service; a notebook record carries the checksum of
\* the notebook it was created from
Record(kind, checksum) == [kind |-> kind, checksum |-> checksum]

NotebookIds(recs) == {i \in 1..Len(recs) : recs[i].kind = "notebook"}
CheckpointIds(recs) == {i \in 1..Len(recs) : recs[i].kind = "checkpoint"}

\* identifiers of datasets, apart from the records the logger creates
DatasetIds == {MaxRecords + 1, MaxRecords + 2}

\* what upload_dataset_to_DataFed returns: None, one identifier, or a list
DatasetNone == [kind |-> "none", ids |-> <<>>]
DatasetStr(id) == [kind |-> "str", ids |-> <<id>>]
DatasetList(ids) == [kind |-> "list", ids |-> ids]

DatasetReturns ==
    {DatasetNone, DatasetStr(MaxRecords + 1),
     DatasetList(<<MaxRecords + 1, MaxRecords + 2>>),
     DatasetList(<<MaxRecords + 1, None, MaxRecords + 1>>)}

\* self.__file__: no notebook, a local path, or a data-service identifier
NoFile == [kind |-> "none", id |-> None]
LocalFile == [kind |-> "path", id |-> None]
IdFile(id) == [kind |-> "id", id |-> id]
Files == {NoFile, LocalFile, IdFile(1)}

\* self.__file__.startswith("d/")
startswith_d(f) == f.kind = "id"

\* the data-service calls of save_notebook and save, in the order made; the
\* first one that fails ends the call that made it
Calls == {"dataView", "upload_dataset_to_DataFed", "addDerivedFrom",
          "data_record_create", "upload_file"}

\* what get_notebook_DataFed_ID_from_path_and_title does: it returns the
\* identifier of a notebook record, raises because there is none, or raises
\* because the call itself failed
LookupFound(id) == [out |-> "found", id |-> id]
LookupNotFound == [out |-> "not found", id |-> None]
LookupFailed == [out |-> "I/O error", id |-> None]
NoLookup == [out |-> "none", id |-> None]

Lookups(recs) ==
    {LookupFound(i) : i \in NotebookIds(recs)}
        \cup (IF NotebookIds(recs) = {} THEN {LookupNotFound} ELSE {})
        \cup {LookupFailed}

\* what can go wrong during one call, apart from the notebook lookup: a
\* data-service call fails, getNotebookMetadata returns None or raises, or
\* the log file cannot be opened. The first failure a call meets ends it, so
\* one fault per call covers every outcome
Faults == Calls \cup {"none", "notebook None", "notebook raise", "log open"}

\* what the environment does during one call: the outcome of the notebook
\* lookup, of getNotebookMetadata, what upload_dataset_to_DataFed returns,
\* the data-service call that fails (if any) and whether the log file opens
Env(lookup, ds, fault) ==
    [lookup |-> lookup, ds |-> ds,
     nbmeta |-> CASE fault = "notebook None" -> "None"
                  [] fault = "notebook raise" -> "raise"
                  [] OTHER -> "ok",
     failAt |-> IF fault \in Calls THEN fault ELSE "none",
     openOK |-> fault # "log open"]

NotebookEnvs(recs) == {Env(l, DatasetNone, f) : l \in Lookups(recs), f \in Faults}
SaveEnvs ==
    {Env(NoLookup, ds, f) : ds \in DatasetReturns,
                           f \in Faults \ {"dataView", "log open", "notebook None"}}

\* the entry save_notebook appends to the log file
NotebookEntry == LogEntry("Uploading notebook", TRUE)

\* the outcome of one call of save_notebook or save: the fields of the logger
\* it leaves, the records of the data service, what it appended to the log
\* file, the exception it raised, the data-service calls it made, the record
\* it created, and the identifiers it handed to addDerivedFrom
Run(nbid, ptr, recs) ==
    [nbid |-> nbid, ptr |-> ptr, records |-> recs, appended |-> <<>>,
     exc |-> "none", calls |-> <<>>, created |-> None, ids_to_add |-> <<>>,
     handed |-> FALSE, md |-> Acc(EmptyRecord, <<>>, "none")]

Called(run, call) == [run EXCEPT !.calls = Append(@, call)]
Failed(run, exc) == [run EXCEPT !.exc = exc]
Logged(run, entry) == [run EXCEPT !.appended = Append(@, entry)]

\* a call on the data service that fails when the environment says so
Try(run, call, env) ==
    IF env.failAt = call THEN Failed(Called(run, call), "IOError") ELSE Called(run, call)

\* save_notebook, the part from "do the uploading" on
upload_notebook(slf, run, cks, env) ==
    IF slf.logging /\ ~env.openOK THEN Failed(run, "OSError")
    ELSE LET r0 == IF slf.logging THEN Logged(run, NotebookEntry) ELSE run
             r1 == Try(r0, "upload_dataset_to_DataFed", env)
             r2 == Try(r1, "addDerivedFrom", env)
             r3 == Try(r2, "data_record_create", env)
             id == Len(run.records) + 1
             r4 == [r3 EXCEPT !.records = Append(@, Record("notebook", cks)),
                              !.created = id]
             r5 == Try(r4, "upload_file", env)
         IN IF r1.exc # "none" THEN r1
            ELSE IF r2.exc # "none" THEN r2
            ELSE IF r3.exc # "none" THEN r3
            ELSE IF r5.exc # "none" THEN r5
            ELSE [r5 EXCEPT !.nbid = id]

\* a comparison that uploads the notebook whatever the checksums are
compare_checksum_always(slf, run, cks, env) ==
    IF env.nbmeta = "raise" THEN Failed(run, "FileNotFoundError")
    ELSE IF env.nbmeta = "None" THEN Failed(run, "ValueError")
    ELSE IF run.nbid = None THEN upload_notebook(slf, run, cks, env)
    ELSE LET r1 == Try(run, "dataView", env)
         IN IF r1.exc # "none" THEN r1
            ELSE IF run.nbid > Len(run.records) THEN Failed(r1, "IOError")
            ELSE IF run.records[run.nbid].kind # "notebook" THEN Failed(r1, "KeyError")
            ELSE upload_notebook(slf, r1, cks, env)

\* save_notebook, the part from getNotebookMetadata on
compare_checksum(slf, run, cks, env) ==
    IF env.nbmeta = "raise" THEN Failed(run, "FileNotFoundError")
    ELSE IF env.nbmeta = "None" THEN Failed(run, "ValueError")
    ELSE IF run.nbid = None THEN upload_notebook(slf, run, cks, env)
    ELSE LET r1 == Try(run, "dataView", env)
         IN IF r1.exc # "none" THEN r1
            ELSE IF run.nbid > Len(run.records) THEN Failed(r1, "IOError")
            ELSE IF run.records[run.nbid].kind # "notebook" THEN Failed(r1, "KeyError")
            ELSE IF cks # run.records[run.nbid].checksum
                 THEN upload_notebook(slf, r1, cks, env)
                 ELSE r1

\* the try/except around the notebook lookup
lookup_notebook(slf, run, env) ==
    LET r1 == Called(run, "get_notebook_DataFed_ID_from_path_and_title")
    IN IF env.lookup.out = "found" THEN [r1 EXCEPT !.nbid = env.lookup.id]
       ELSE IF ~slf.logging THEN r1
       ELSE IF ~env.openOK THEN Failed(r1, "OSError")
       ELSE Logged(r1, NotebookEntry)

\* save_notebook on the logger slf, the data service holding recs and the
\* notebook file having checksum cks
save_notebook(slf, recs, cks, env) ==
    LET run == Run(slf.nbid, slf.ptr, recs)
    IN IF slf.file.kind = "none" THEN run
       ELSE LET r1 == IF startswith_d(slf.file)
                      THEN [run EXCEPT !.nbid = slf.file.id]
                      ELSE lookup_notebook(slf, run, env)
            IN IF r1.exc # "none" THEN r1 ELSE compare_checksum(slf, r1, cks, env)

\* the arguments of one save: datafed and the two inputs of getMetadata (the
\* local file save writes first is outside the model)
SaveArgs(lv) ==
    {a \in [datafed : BOOLEAN, lv : {Missing, Given(lv)}, hp : {Missing, Given(HyperNames)}] :
        a.lv.given \/ a.hp.given}

NotNone(id) == id # None

\* the list of identifiers save builds from the notebook, the current
\* checkpoint and what upload_dataset_to_DataFed returned
ids_to_add(nbid, ptr, ds) ==
    IF ds.kind = "str" THEN SelectSeq(<<nbid, ptr, ds.ids[1]>>, NotNone)
    ELSE IF ds.kind = "list" THEN SelectSeq(<<nbid, ptr>>, NotNone) \o ds.ids
    ELSE SelectSeq(<<nbid, ptr>>, NotNone)

\* a save that keeps the pointer it had when it had one
create_checkpoint_keeping(slf, run, args, env) ==
    LET md == getMetadata(slf, args.lv, args.hp, env.openOK, env.nbmeta)
        r1 == [run EXCEPT !.md = md, !.appended = md.appended]
        r2 == Try(r1, "data_record_create", env)
        id == Len(run.records) + 1
        r3 == [r2 EXCEPT !.records = Append(@, Record("checkpoint", "none")),
                         !.created = id]
        r4 == Try(r3, "upload_file", env)
    IN IF md.exc # "none" THEN Failed(r1, md.exc)
       ELSE IF r2.exc # "none" THEN r2
       ELSE IF r4.exc # "none" THEN r4
       ELSE [r4 EXCEPT !.ptr = IF run.ptr = None THEN id ELSE run.ptr]

\* save, from getMetadata on, with the dependencies built
create_checkpoint(slf, run, args, env) ==
    LET md == getMetadata(slf, args.lv, args.hp, env.openOK, env.nbmeta)
        r1 == [run EXCEPT !.md = md, !.appended = md.appended]
        r2 == Try(r1, "data_record_create", env)
        id == Len(run.records) + 1
        r3 == [r2 EXCEPT !.records = Append(@, Record("checkpoint", "none")),
                         !.created = id]
        r4 == Try(r3, "upload_file", env)
    IN IF md.exc # "none" THEN Failed(r1, md.exc)
       ELSE IF r2.exc # "none" THEN r2
       ELSE IF r4.exc # "none" THEN r4
       ELSE [r4 EXCEPT !.ptr = id]

\* the "if datafed:" part of save
save_datafed(slf, run, args, env) ==
    LET r1 == Try(run, "upload_dataset_to_DataFed", env)
        ids == ids_to_add(run.nbid, run.ptr, env.ds)
        r2 == IF ids # <<>>
              THEN [Try(r1, "addDerivedFrom", env) EXCEPT !.ids_to_add = ids, !.handed = TRUE]
              ELSE r1
    IN IF r1.exc # "none" THEN r1
       ELSE IF r2.exc # "none" THEN r2
       ELSE create_checkpoint(slf, r2, args, env)

\* a save that forgets the pointer when it does not upload
save_clearing(slf, recs, args, env) ==
    LET run == Run(slf.nbid, slf.ptr, recs)
    IN IF args.datafed THEN save_datafed(slf, run, args, env)
       ELSE [run EXCEPT !.ptr = None]

\* save(record_file_name, datafed, local_file_path, local_vars,
\* model_hyperparameters) on the logger slf
save(slf, recs, args, env) ==
    LET run == Run(slf.nbid, slf.ptr, recs)
    IN IF args.datafed THEN save_datafed(slf, run, args, env) ELSE run

-----------------------------------------------------------------------------
(* The logger and its callers *)

\* the fields of the logger the calls read
Self ==
    [nbid |-> notebook_record_id, ptr |-> current_checkpoint_id, file |-> file,
     logging |-> logging, input_data_shape |-> input_data_shape]

\* what the last call was, with what it was given and what it did; cks is the
\* checksum the notebook file had when its record was resolved, after_reset
\* tells of a remote save that the call before it was a reset
Entry(op, after_reset, run, ptr_before, n_before, lookup, datafed, given) ==
    [op |-> op, after_reset |-> after_reset, exc |-> run.exc, calls |-> run.calls, created |-> run.created,
     ids_to_add |-> run.ids_to_add, handed |-> run.handed, md |-> run.md,
     cks |-> IF op \in {"construct", "save_notebook"} THEN nbChecksum ELSE "none",
     ptr_before |-> ptr_before, n_before |-> n_before,
     lookup |-> lookup, datafed |-> datafed, given |-> given]

NoRun == Run(None, None, <<>>)

Last(op, run, ptr_before, n_before, lookup, datafed, given) ==
    Entry(op, op = "save" /\ datafed /\ last.op = "reset", run, ptr_before, n_before, lookup, datafed, given)

\* the snapshot a training loop holds when it saves a checkpoint
TrainingVars == <<<<"lr", Float>>, <<"encoder", Module>>>>

Init ==
    /\ state = "Uninitialized"
    /\ records = <<>>
    /\ current_checkpoint_id = None
    /\ notebook_record_id = None
    /\ file = NoFile
    /\ nbChecksum = "c1"
    /\ logging = FALSE
    /\ input_data_shape = NoShape
    /\ log = <<>>
    /\ local_vars = TrainingVars
    /\ last = Entry("none", FALSE, NoRun, None, 0, NoLookup, FALSE, FALSE)

\* what a call leaves of the data service and of the log file
Effects(run) ==
    /\ Len(run.records) <= MaxRecords
    /\ Len(log) + Len(run.appended) <= MaxLog
    /\ records' = run.records
    /\ log' = log \o run.appended

\* TorchLogger(...): __init__ sets the fields and saves the notebook; when it
\* raises there is no logger
Construct ==
    /\ state = "Uninitialized"
    /\ \E f \in Files, lg \in {FALSE}, shape \in {NoShape}, env \in NotebookEnvs(records) :
        LET slf == [nbid |-> None, ptr |-> None, file |-> f, logging |-> lg,
                    input_data_shape |-> shape]
            run == save_notebook(slf, records, nbChecksum, env)
        IN /\ Effects(run)
           /\ state' = IF run.exc = "none" THEN "Ready" ELSE "Uninitialized"
           /\ file' = f
           /\ logging' = lg
           /\ input_data_shape' = shape
           /\ current_checkpoint_id' = None
           /\ notebook_record_id' = IF run.exc = "none" THEN run.nbid ELSE None
           /\ last' = Last("construct", run, None, Len(records),
                           IF f.kind = "path" THEN env.lookup ELSE NoLookup, FALSE, FALSE)
           /\ UNCHANGED <<nbChecksum, local_vars>>

\* logger.save_notebook()
SaveNotebook ==
    /\ state = "Ready"
    /\ \E env \in NotebookEnvs(records) :
        LET run == save_notebook(Self, records, nbChecksum, env)
        IN /\ Effects(run)
           /\ notebook_record_id' = run.nbid
           /\ last' = Last("save_notebook", run, current_checkpoint_id, Len(records),
                           IF file.kind = "path" THEN env.lookup ELSE NoLookup, FALSE, FALSE)
           /\ UNCHANGED <<state, current_checkpoint_id, file, nbChecksum, logging,
                          input_data_shape, local_vars>>

\* logger.save(...) with the arguments args, in the environment env
SaveWith(args, env) ==
    LET run == save(Self, records, args, env)
    IN /\ Effects(run)
       /\ notebook_record_id' = run.nbid
       /\ current_checkpoint_id' = run.ptr
       /\ last' = Last("save", run, current_checkpoint_id, Len(records), NoLookup,
                       args.datafed, args.lv.given /\ args.hp.given)
       /\ UNCHANGED <<state, file, nbChecksum, logging, input_data_shape, local_vars>>

\* logger.save(...): with datafed=False nothing of the environment is read
Save ==
    /\ state = "Ready"
    /\ \/ \E args \in SaveArgs(local_vars) :
            /\ ~args.datafed /\ args.lv.given /\ args.hp.given
            /\ SaveWith(args, Env(NoLookup, DatasetNone, "none"))
       \/ \E args \in SaveArgs(local_vars), env \in SaveEnvs :
            /\ args.datafed
            /\ SaveWith(args, env)

\* a reset that leaves the pointer where it is
Reset_keeping ==
    /\ state = "Ready"
    /\ current_checkpoint_id' = current_checkpoint_id
    /\ last' = Last("reset", NoRun, current_checkpoint_id, Len(records), NoLookup,
                    FALSE, FALSE)
    /\ UNCHANGED <<state, records, notebook_record_id, file, nbChecksum, logging,
                   input_data_shape, log, local_vars>>

\* logger.reset()
Reset ==
    /\ state = "Ready"
    /\ current_checkpoint_id' = None
    /\ last' = Last("reset", NoRun, current_checkpoint_id, Len(records), NoLookup,
                    FALSE, FALSE)
    /\ UNCHANGED <<state, records, notebook_record_id, file, nbChecksum, logging,
                   input_data_shape, log, local_vars>>

\* the user edits the notebook file: its checksum changes
EditNotebook ==
    /\ \E c \in Checksums :
        /\ c # nbChecksum
        /\ nbChecksum' = c
    /\ UNCHANGED <<state, records, current_checkpoint_id, notebook_record_id, file,
                   logging, input_data_shape, log, local_vars, last>>

\* logger.getMetadata(local_vars, model_hyperparameters)
GetMetadata ==
    /\ state = "Ready"
    /\ \E lv \in {Missing, Given(local_vars)}, hp \in {Missing, Given(HyperNames)},
          fault \in {"none", "notebook None", "notebook raise", "log open"} :
        LET env == Env(NoLookup, DatasetNone, fault)
            md == getMetadata(Self, lv, hp, env.openOK, env.nbmeta)
        IN /\ Len(log) + Len(md.appended) <= MaxLog
           /\ log' = log \o md.appended
           /\ last' = Last("getMetadata", [NoRun EXCEPT !.exc = md.exc, !.md = md],
                           current_checkpoint_id,
                           Len(records), NoLookup, FALSE, lv.given /\ hp.given)
    /\ UNCHANGED <<state, records, current_checkpoint_id, notebook_record_id, file,
                   nbChecksum, logging, input_data_shape, local_vars>>

Next == Construct \/ SaveNotebook \/ Save \/ Reset \/ EditNotebook \/ GetMetadata

Spec == Init /\ [][Next]_vars

-----------------------------------------------------------------------------
(* getMetadata on its own: a logger that is ready, over the snapshots *)

\* a snapshot variable: every value under the names the rules tell apart,
\* one value under the names that are skipped whatever they hold
Bindings ==
    ({"lr", "encoder", "optimizer", "Optim", "x"} \X Values)
        \cup ({"_x", "Self", "datafed_api", "globus_ep"} \X {Float})

\* the variables that precede the last one of a snapshot
EarlierBindings == {<<"lr", Float>>, <<"x", BadStrFmt>>, <<"x", BadStr>>}

RECURSIVE SeqsUpTo(_, _)
SeqsUpTo(S, n) ==
    IF n <= 0 THEN {<<>>}
    ELSE SeqsUpTo(S, n - 1) \cup {Append(q, x) : q \in SeqsUpTo(S, n - 1), x \in S}

Snapshots ==
    {<<>>} \cup {Append(q, b) : q \in SeqsUpTo(EarlierBindings, MaxVars - 1), b \in Bindings}

InitMeta ==
    /\ state = "Ready"
    /\ records = <<>>
    /\ current_checkpoint_id = None
    /\ notebook_record_id = None
    /\ file = LocalFile
    /\ nbChecksum = "c1"
    /\ logging \in BOOLEAN
    /\ input_data_shape \in {NoShape, InputShape}
    /\ log = <<>>
    /\ local_vars \in Snapshots
    /\ last = Entry("none", FALSE, NoRun, None, 0, NoLookup, FALSE, FALSE)

NextMeta == GetMetadata

SpecMeta == InitMeta /\ [][NextMeta]_vars

-----------------------------------------------------------------------------
(* What the claims speak of *)

\* getMetadata was the last call, with both inputs, on the snapshot held
MetadataCalled == last.op = "getMetadata" /\ last.given

\* it returned a record
MetadataReturned == MetadataCalled /\ last.exc = "none"

\* the record it returned
Returned == last.md.md

\* the names the provenance merged in after the loop carries
ProvenanceKeys == {"script", "user", "timestamp"}

\* the entries of the record that come from snapshot variables
Entries ==
    {Returned.MP[k] : k \in DOMAIN Returned.MP \ ProvenanceKeys}
        \cup {Returned.MH[k] : k \in DOMAIN Returned.MH}
        \cup {Returned.MA[k] : k \in DOMAIN Returned.MA}

\* JSON can represent what the entry holds; the outputs of the helpers
\* (attribute mapping, serialized block, serialized optimizer) are taken to be
Representable(e) ==
    CASE e.form = "raw" -> json_dumps(e.val) = "ok"
      [] e.form = "elem0" -> e.val.elems[1].json
      [] e.form = "tolist" -> e.val.tolist_json
      [] OTHER -> TRUE

\* the positions of the snapshot whose pair is not excluded
Kept == {i \in 1..Len(local_vars) : ~Excluded(local_vars[i][1], local_vars[i][2])}

\* the positions whose value fails direct encoding and converts to a string
StringOnly ==
    {i \in Kept : json_dumps(local_vars[i][2]) # "ok" /\ local_vars[i][2].str = "ok"}

\* the positions whose value fails direct encoding and string conversion
FailsBoth ==
    {i \in Kept : json_dumps(local_vars[i][2]) # "ok" /\ local_vars[i][2].str # "ok"}

\* no later variable of the snapshot has the name of the one at i
LastOfName(i) == \A j \in (i + 1)..Len(local_vars) : local_vars[j][1] # local_vars[i][1]

\* what the record holds under key, wherever it holds it
Holds(key) ==
    (IF key \in DOMAIN Returned.MP THEN {Returned.MP[key]} ELSE {})
        \cup (IF key \in DOMAIN Returned.MH THEN {Returned.MH[key]} ELSE {})
        \cup (IF key \in DOMAIN Returned.MA THEN {Returned.MA[key]} ELSE {})

\* the exceptions of getMetadata that no snapshot value causes
NotByValue == {"none", "FileNotFoundError", "TypeError (update)"}

\* C1 (as claimed): every value of the returned record that comes from a
\* snapshot variable is JSON-representable.
C1_AllRepresentable ==
    MetadataReturned => \A e \in Entries : Representable(e)

\* C7 (as claimed): no snapshot value makes getMetadata raise, whether or not
\* the log file can be opened or written.
C7_NeverInterrupted ==
    MetadataCalled => last.exc \in NotByValue

\* C9 (as claimed): when the values convert to strings, getMetadata does not
\* raise because of them, and a value that fails direct encoding and is put
\* in the record as itself or as its string is there as its string.
C9_StringFormStored ==
    (MetadataCalled /\ FailsBoth = {})
        => /\ last.exc \in NotByValue
           /\ last.exc = "none" =>
                \A i \in StringOnly : \A e \in Holds(local_vars[i][1]) :
                    (LastOfName(i) /\ e.val = local_vars[i][2] /\ e.form \in {"raw", "str"})
                        => e.form = "str"

\* the positions the call reached whose value took the last branch and
\* failed both conversions there
FallbackFailed ==
    {i \in 1..Len(last.md.tags) :
        /\ last.md.tags[i] = "default"
        /\ json_dumps(local_vars[i][2]) \in Caught
        /\ local_vars[i][2].str \in Caught}

\* the complete entries the call appended to the log file for the key
CompleteEntries(key) ==
    {n \in 1..Len(last.md.appended) : last.md.appended[n] = LogEntry(key, TRUE)}

\* C10 (as claimed): a value that fails both conversions leaves no key in the
\* returned record; with logging on the call appends exactly one entry per
\* such variable and nothing else, with logging off it appends nothing.
C10_OmittedAndLoggedOnce ==
    MetadataCalled
        => /\ last.exc = "none" => \A i \in FallbackFailed :
                \A e \in Holds(local_vars[i][1]) : e.val # local_vars[i][2]
           /\ logging => /\ Len(last.md.appended) = Cardinality(FallbackFailed)
                         /\ \A i \in FallbackFailed :
                              Cardinality(CompleteEntries(local_vars[i][1]))
                                  = Cardinality({j \in FallbackFailed :
                                        local_vars[j][1] = local_vars[i][1]})
           /\ ~logging => last.md.appended = <<>>

-----------------------------------------------------------------------------
(* The checkpoint orchestrator *)

\* the last call was a save with remote upload
RemoteSave == last.op = "save" /\ last.datafed

\* the last call resolved the notebook of a local path
Resolved == last.op \in {"construct", "save_notebook"} /\ last.lookup.out # "none"

\* the identifiers of checkpoints among those handed to addDerivedFrom; a
\* save reads them as the data service held them before it created anything
HandedCheckpoints ==
    {last.ids_to_add[n] : n \in 1..Len(last.ids_to_add)}
        \cap {i \in 1..last.n_before : records[i].kind = "checkpoint"}

NoDuplicates(q) == \A m, n \in 1..Len(q) : m # n => q[m] # q[n]

\* where id stands in q, 0 when it does not
Position(q, id) == IF \E n \in 1..Len(q) : q[n] = id
                   THEN CHOOSE n \in 1..Len(q) : q[n] = id
                   ELSE 0

\* C2 (as claimed): the list a remote save hands to addDerivedFrom has no
\* duplicate and no None, and holds the notebook first, then the previous
\* checkpoint, then the dataset identifiers.
C2_DependencyList ==
    (RemoteSave /\ last.handed)
        => /\ NoDuplicates(last.ids_to_add)
           /\ \A n \in 1..Len(last.ids_to_add) : last.ids_to_add[n] # None
           /\ notebook_record_id # None => last.ids_to_add[1] = notebook_record_id
           /\ last.ptr_before # None =>
                Position(last.ids_to_add, last.ptr_before)
                    = (IF notebook_record_id # None THEN 2 ELSE 1)

\* C3: a remote save that completes leaves the pointer on the record it
\* created, a checkpoint record that is new; one that fails leaves the
\* pointer where it was; and the only checkpoint a remote save hands to
\* addDerivedFrom is the one the pointer named when it began, none when the
\* pointer named none, as in the first save after construction.
C3_PointerReplaced ==
    /\ current_checkpoint_id # None => current_checkpoint_id \in CheckpointIds(records)
    /\ RemoteSave =>
        /\ last.exc = "none" =>
            /\ last.created = last.n_before + 1 /\ Len(records) = last.created
            /\ records[last.created].kind = "checkpoint"
            /\ current_checkpoint_id = last.created
        /\ last.exc # "none" => current_checkpoint_id = last.ptr_before
        /\ last.handed => HandedCheckpoints = {last.ptr_before} \ {None}
        /\ (~last.handed /\ last.exc = "none") => last.ptr_before = None

\* a second checkpoint was saved on top of the first
C3_Witness ==
    /\ RemoteSave /\ last.exc = "none" /\ last.created = 2
    /\ last.ptr_before = 1 /\ CheckpointIds(records) = {1, 2}
    /\ last.handed /\ HandedCheckpoints = {1} /\ current_checkpoint_id = 2

\* C4: reset leaves the pointer on none; a remote save that begins with the
\* pointer on none hands no checkpoint to addDerivedFrom; and the pointer
\* leaves none only by a remote save that completes, for the record it made.
C4_ResetClearsLineage ==
    /\ [](last.op = "reset" => current_checkpoint_id = None)
    /\ []((RemoteSave /\ last.ptr_before = None /\ last.handed) => HandedCheckpoints = {})
    /\ [][(current_checkpoint_id = None /\ current_checkpoint_id' # None)
            => /\ last'.op = "save" /\ last'.datafed /\ last'.exc = "none"
               /\ last'.ptr_before = None
               /\ current_checkpoint_id' = last'.created]_vars

\* a remote save right after a reset, with a checkpoint saved before the
\* reset: it handed identifiers to addDerivedFrom, the checkpoint not among
\* them
C4_Witness ==
    /\ RemoteSave /\ last.after_reset /\ last.handed /\ last.ptr_before = None
    /\ CheckpointIds(records) = {1, 2} /\ HandedCheckpoints = {}
    /\ last.exc = "none" /\ last.created = 2 /\ current_checkpoint_id = 2

C6_LookupFailurePropagates ==
    (Resolved /\ last.lookup.out = "I/O error")
        => last.exc = "IOError" /\ last.created = None

\* C8 (as claimed): a remote save without the snapshot or without the
\* hyperparameter names raises the configuration error before any
\* data-service call; getMetadata without one of them raises it.
C8_RaisedBeforeAnyCall ==
    /\ (last.op = "getMetadata" /\ ~last.given) => last.exc = "ValueError"
    /\ (RemoteSave /\ ~last.given)
        => /\ last.exc = "ValueError" /\ last.calls = <<>>
           /\ last.created = None /\ current_checkpoint_id = last.ptr_before

\* the calls a remote save makes before it assembles the metadata
BeforeMetadata == {"upload_dataset_to_DataFed", "addDerivedFrom"}

\* C8 (amended): getMetadata without one of the two inputs raises the
\* configuration error and returns no record; a remote save without one of
\* them makes the dataset upload and (when there are identifiers) the
\* dependency call first, then raises the configuration error unless one of
\* these two calls failed; it never creates a record, never uploads a file,
\* and leaves the pointer and the data service as they were.
C8_RaisedBeforeRecordCreation ==
    /\ (last.op = "getMetadata" /\ ~last.given)
        => last.exc = "ValueError" /\ last.md.md = EmptyRecord
    /\ (RemoteSave /\ ~last.given)
        => /\ last.exc \in {"ValueError", "IOError"}
           /\ last.calls # <<>> /\ last.calls[1] = "upload_dataset_to_DataFed"
           /\ {last.calls[n] : n \in 1..Len(last.calls)} \subseteq BeforeMetadata
           /\ last.exc = "ValueError" => last.md.exc = "ValueError"
           /\ last.created = None /\ Len(records) = last.n_before
           /\ current_checkpoint_id = last.ptr_before

\* a remote save without the snapshot raised the configuration error after
\* both calls, on a logger that had saved a checkpoint
C8_Witness ==
    /\ RemoteSave /\ ~last.given /\ last.exc = "ValueError"
    /\ last.calls = <<"upload_dataset_to_DataFed", "addDerivedFrom">>
    /\ last.ptr_before # None

-----------------------------------------------------------------------------
(* The rules of the classifier *)

\* the positions the call reached that took the given branch
Took(b) == {i \in 1..Len(last.md.tags) : last.md.tags[i] = b}

\* the variable at position i was the last one the call reached
LastReached(i) == Len(last.md.tags) = i

\* C11: a list that reaches the list rule raises nothing; when the call
\* returns, a list whose elements' strings total less than 1000 characters
\* is under its key in Model Parameters, as its one element when it has one
\* and as the list itself otherwise, and a list of 1000 or more is not in
\* the record.
C11_ListRule ==
    MetadataCalled => \A i \in Took("list") :
        LET key == local_vars[i][1]
            value == local_vars[i][2]
        IN /\ LastReached(i) => last.exc \in NotByValue
           /\ (MetadataReturned /\ LastOfName(i)) =>
                IF sum_strlen(value.elems) < LongListLimit
                THEN /\ key \in DOMAIN Returned.MP
                     /\ Returned.MP[key]
                          = Stored(IF Len(value.elems) = 1 THEN "elem0" ELSE "raw", value)
                ELSE \A e \in Holds(key) : e.val # value

\* a list named as a hyperparameter whose elements total 999 characters was
\* kept as a list
C11_Witness ==
    /\ MetadataReturned /\ Len(local_vars) = MaxVars
    /\ local_vars[MaxVars] = <<"lr", List2>> /\ MaxVars \in Took("list")
    /\ Returned.MP["lr"] = Stored("raw", List2)

\* the names the call emitted a warning for
Warned == {last.md.warnings[n] : n \in 1..Len(last.md.warnings)}

\* C12 (as claimed): a list left out because its elements' strings total
\* 1000 characters or more has a warning emitted for its key, and is not in
\* the record.
C12_WarningEmitted ==
    MetadataCalled => \A i \in Took("list") :
        sum_strlen(local_vars[i][2].elems) >= LongListLimit
            => /\ local_vars[i][1] \in Warned
               /\ MetadataReturned =>
                    \A e \in Holds(local_vars[i][1]) : e.val # local_vars[i][2]

\* every dimension of a is smaller than the dimension of b at its position
elementwise_less(a, b) ==
    Len(a) = Len(b) /\ \A n \in 1..Len(a) : a[n] < b[n]

\* the record holds the array of position i where its rule puts it
ArrayRetained(i) ==
    LET key == local_vars[i][1]
        value == local_vars[i][2]
    IN IF last.md.tags[i] = "hyperparameter"
       THEN key \in DOMAIN Returned.MH /\ Returned.MH[key].val = value
       ELSE key \in DOMAIN Returned.MP /\ Returned.MP[key].val = value

\* C13 (as claimed): with an input shape configured, an array that is a
\* hyperparameter is in Model Hyperparameters exactly when its shape is
\* smaller than the input shape in every dimension, and the same test
\* decides for an array that is no hyperparameter.
C13_ElementwiseShape ==
    (MetadataReturned /\ input_data_shape.given)
        => \A i \in Took("hyperparameter") \cup Took("array") :
            (isinstance_array(local_vars[i][2]) /\ LastOfName(i))
                => (ArrayRetained(i)
                        <=> elementwise_less(local_vars[i][2].shape, input_data_shape.shape))

\* the type of the value is a data loader, or its name contains "data"
DataTyped(value) ==
    type_contains(value.typ, "data") \/ type_contains(value.typ, "dataloader")

\* C14: a variable whose value is a data loader, or of a type whose name
\* contains "data", takes no rule of the classifier whatever its name is, and
\* no entry of the returned record holds such a value.
C14_DataNeverStored ==
    /\ MetadataCalled => \A i \in 1..Len(last.md.tags) :
            DataTyped(local_vars[i][2]) => last.md.tags[i] = "ignored"
    /\ MetadataReturned => \A e \in Entries : ~DataTyped(e.val)

\* a data loader under the name of a model block was left out of the record
C14_Witness ==
    /\ MetadataReturned /\ Len(local_vars) = MaxVars
    /\ local_vars[MaxVars] = <<"encoder", Loader>>
    /\ last.md.tags[MaxVars] = "ignored" /\ "encoder" \notin DOMAIN Returned.MA

\* the rule the claim assigns to a pair that is not excluded: the first of
\* the ten whose predicate holds, rule 8 asking for an attribute mapping that
\* is not empty
stated_rule(key, value, hp) ==
    IF key \in model_dict THEN "architecture"
    ELSE IF ~isinstance_str(value) /\ casefold(key) \in OptimizerAliases THEN "optimizer"
    ELSE IF isinstance_list(value) THEN "list"
    ELSE IF key \in hp THEN "hyperparameter"
    ELSE IF isinstance_array(value) THEN "array"
    ELSE IF is_path_or_device(value) THEN "path"
    ELSE IF has_dict(value) /\ value.nattrs > 0 THEN "object"
    ELSE IF isinstance_dict(value) /\ value.size > 0 THEN "dict"
    ELSE "default"

\* the parts of the returned record that hold the value under the key
Locations(key, value) ==
    {loc \in {"MP", "MH", "MA"} :
        key \in DOMAIN Returned[loc] /\ Returned[loc][key].val = value}

\* C15 (as claimed): a pair that is not excluded takes the first rule, in the
\* order 1 to 10, whose predicate holds; a pair rule 8 does not hold for is
\* handled by the later rules, so a value that only converts to a string is
\* stored as its string by rule 10; and a pair is in one part of the record
\* at most.
C15_FirstMatchingRule ==
    MetadataCalled => \A i \in 1..Len(last.md.tags) :
        LET key == local_vars[i][1]
            value == local_vars[i][2]
        IN last.md.tags[i] # "ignored" =>
            /\ last.md.tags[i] = stated_rule(key, value, HyperNames)
            /\ (MetadataReturned /\ LastOfName(i)) =>
                /\ Cardinality(Locations(key, value)) <= 1
                /\ (stated_rule(key, value, HyperNames) = "default"
                        /\ json_dumps(value) \in Caught /\ value.str = "ok")
                     => (key \in DOMAIN Returned.MP
                            /\ Returned.MP[key] = Stored("str", value))

-----------------------------------------------------------------------------
(* The notebook given by its identifier *)

\* the data-service calls the last call made
CallsMade == {last.calls[n] : n \in 1..Len(last.calls)}

\* C16 (as claimed): constructing a logger whose notebook is given as a
\* "d/" identifier makes no notebook lookup, creates no record and uploads
\* no file, and leaves the logger with that identifier, whatever checksum
\* the record carries.
C16_IdentifierAcceptedAsIs ==
    (last.op = "construct" /\ file.kind = "id")
        => /\ "get_notebook_DataFed_ID_from_path_and_title" \notin CallsMade
           /\ last.created = None /\ Len(records) = last.n_before
           /\ "upload_file" \notin CallsMade
           /\ last.exc = "none" => notebook_record_id = file.id

-----------------------------------------------------------------------------
(* The frame of the current-checkpoint pointer *)

\* C17: the pointer changes only when reset sets it to none and when a
\* remote save that created its record and uploaded its file sets it to that
\* record; a save without remote upload makes no data-service call and
\* leaves the pointer; a save that fails, getMetadata, the construction and
\* the notebook resolution leave it.
C17_PointerFrame ==
    /\ [][current_checkpoint_id' # current_checkpoint_id
            => \/ last'.op = "reset" /\ current_checkpoint_id' = None
               \/ /\ last'.op = "save" /\ last'.datafed /\ last'.exc = "none"
                  /\ last'.calls[Len(last'.calls) - 1] = "data_record_create"
                  /\ last'.calls[Len(last'.calls)] = "upload_file"
                  /\ last'.created = Len(records') /\ Len(records') = Len(records) + 1
                  /\ current_checkpoint_id' = last'.created]_vars
    /\ []((last.op = "save" /\ ~last.datafed)
            => last.calls = <<>> /\ current_checkpoint_id = last.ptr_before)
    /\ []((last.op = "save" /\ last.exc # "none")
            => current_checkpoint_id = last.ptr_before)
    /\ [](last.op \in {"getMetadata", "save_notebook", "construct"}
            => current_checkpoint_id = last.ptr_before)

\* a remote save created its record and failed at the file upload, on a
\* logger that had saved a checkpoint: the pointer stayed on that checkpoint
C17_Witness ==
    /\ RemoteSave /\ last.exc = "IOError" /\ last.created = 2
    /\ last.calls[Len(last.calls)] = "upload_file"
    /\ last.ptr_before = 1 /\ current_checkpoint_id = 1

====
